---- MODULE Spec2Model ----
(***************************************************************************)
(* State-machine model of the OCPP virtual charge point:                   *)
(*   - VCP (src/src/vcp.ts): connect / send / respond / respondError /     *)
(*     configureHeartbeat / close / _onMessage / _onClose and the derived  *)
(*     admin state;                                                        *)
(*   - TransactionManager (src/src/v16/transactionManager.ts): the session *)
(*     table and the MeterValues interval timers.                          *)
(* The pending-call ledger (ocppOutbox), the schema oracle and the version *)
(* message handler are collaborators whose code is not part of the         *)
(* sources; they are modelled at their documented boundary.                *)
(***************************************************************************)
EXTENDS Integers, Sequences, FiniteSets, TLC

\* ---------------------------------------------------------------- bounds

\* message ids the message factory hands out: 1..MaxCalls
MaxCalls == 2
\* transports one VCP may create
MaxSocks == 2
\* interval timers the runtime hands out
MaxTimers == 2
\* transaction ids
MaxTx == 1
\* the model clock stops here (seconds)
MaxTime == 120
\* largest single advance of the clock (seconds)
TimeStep == 30

\* ------------------------------------------------------ program constants

METER_VALUES_INTERVAL_SEC == 60
CHARGING_POWER_KW == 22

\* ------------------------------------------------------------- value sets

FreshIds == 1..MaxCalls
\* the factory's ids and one it never hands out, which only the peer and the
\* admin client name
Ids == 1..(MaxCalls + 1)
\* message ids of the peer's own calls
PeerIds == {1}
TxIds == 1..MaxTx
\* a transaction id no session is ever started with
UnknownTx == MaxTx + 1
ConnectorIds == {1}

\* actions the admin client injects through the admin channel
AdminActions == {"StartTransaction", "StopTransaction", "StatusNotification"}
\* actions the peer may name in an inbound call ("Reset" is outside the set
\* the configured version implements)
ImplementedInbound == {"RemoteStopTransaction"}
InboundActions == ImplementedInbound \cup {"Reset"}

\* A payload is what the program reads of it: the oracle's verdict on it
\* (valid), payload.transactionId (0: absent), payload.status ("": absent)
\* and the first sampled value in Wh (-1: no meterValue array).
Payload(v, t, s, m) == [valid |-> v, transactionId |-> t, status |-> s, meter |-> m]
NoPayload == Payload(TRUE, 0, "", -1)

RequestPayloads(action) ==
  IF action = "StatusNotification"
    THEN {Payload(v, 0, "Charging", -1) : v \in BOOLEAN}
  ELSE IF action = "StopTransaction"
    THEN {Payload(v, t, "", -1) : v \in BOOLEAN, t \in TxIds}
  ELSE {Payload(v, 0, "", -1) : v \in BOOLEAN}

ResultPayloads == {Payload(v, t, "", -1) : v \in BOOLEAN, t \in {0} \cup TxIds}

Call(id, action, payload) == [messageId |-> id, action |-> action, payload |-> payload]
NoCall == Call(0, "", NoPayload)

\* ----------------------------------------------------------------- state

VARIABLES
  ws,            \* VCP.ws: the current transport's handle, 0 when undefined
  live,          \* transports created by connect() whose handlers are attached
  nextSock,      \* next transport handle
  adminWs,       \* VCP.adminWs is defined
  clients,       \* admin clients connected and open
  isFinishing,   \* VCP.isFinishing
  exited,        \* Running, or how the process ended (see Exit)
  state,         \* VCP.state
  outbox,        \* ocppOutbox: the pending calls
  nextId,        \* next message id of the message factory
  wire,          \* frames handed to a transport so far
  transactions,  \* TransactionManager.transactions
  timers,        \* armed interval timers of startTransaction
  nextTimer,     \* next timer handle
  heartbeat,     \* the interval of configureHeartbeat is armed
  now,           \* the clock, in seconds
  meterCount,    \* MeterValues calls transmitted, per transaction id
  handled,       \* message ids handleCallResult was invoked with
  clientFails,   \* the send of an open admin client throws
  otherOpen,     \* a second VCP of the process has its transport
  foreign        \* message ids only the second VCP's send put in ocppOutbox

vars == <<ws, live, nextSock, adminWs, clients, isFinishing, exited, state,
          outbox, nextId, wire, transactions, timers, nextTimer, heartbeat,
          now, meterCount, handled, clientFails, otherOpen, foreign>>

connVars == <<ws, live, nextSock, isFinishing>>
adminVars == <<adminWs, clients, clientFails>>
txVars == <<transactions, timers, nextTimer>>
handledVars == <<handled>>
otherVars == <<otherOpen, foreign>>

\* ----------------------------------------------------------------- errors

\* the exceptions the program throws ("" : none)
NoError == ""
NotInitialized == "Websocket not initialized. Call connect() first"
NotOpened == "Trying to close a Websocket that was not opened. Call connect() first"
UnknownMessageId == "Received CallResult for unknown messageId"
UnrecognizedType == "Unrecognized message type"
RequestRejected == "validateOcppRequest failed"
ResponseRejected == "validateOcppResponse failed"
DuplicateCallId == "DuplicateCallId"
AdminSendFailed == "admin client send failed"

\* How the process ended: by process.exit (how = "exit", from close or
\* _onClose) or by an exception nobody caught (how = "uncaught", thrown in
\* `from`).
Exit(how, from, error) == [how |-> how, from |-> from, error |-> error]
Running == Exit("no", "", NoError)

\* ----------------------------------------------------------------- traces

\* A handler's trace lists its effects in program order.
Has(trace, e) == \E i \in 1..Len(trace) : trace[i] = e
Count(trace, e) == Cardinality({i \in 1..Len(trace) : trace[i] = e})
Index(trace, e) == IF Has(trace, e)
                     THEN CHOOSE i \in 1..Len(trace) :
                            trace[i] = e /\ \A j \in 1..(i - 1) : trace[j] # e
                     ELSE 0

\* ---------------------------------------------------------------- ledger

OutboxIds(ob) == {c.messageId : c \in ob}

\* ocppOutbox.get(messageId): read-only, the entry stays
OutboxGet(ob, id) ==
  IF id \in OutboxIds(ob) THEN CHOOSE c \in ob : c.messageId = id ELSE NoCall

\* ocppOutbox.enqueue(call) accepts the call: a duplicate id is an error
EnqueueOk(ob, c) == c.messageId \notin OutboxIds(ob)
OutboxEnqueue(ob, c) == ob \cup {c}

\* ---------------------------------------------------------- schema oracle

validateOcppRequest(action, payload) == payload.valid
validateOcppResponse(action, payload) == payload.valid

\* ------------------------------------------------------------ admin mirror

\* broadcastToAdminClients(message): one delivery per open client, none
\* when adminWs is undefined
Broadcast(aws, n, type) ==
  IF aws THEN [i \in 1..n |-> type] ELSE <<>>

\* broadcastToAdminClients throws: client.send of an open client throws and
\* nothing around the forEach catches it
BroadcastThrows == adminWs /\ clients > 0 /\ clientFails

\* ------------------------------------------------------------ derived state

InitialState ==
  [currentStatus |-> "Unknown", activeTransactionId |-> 0,
   sessionStartTime |-> -1, meterValue |-> 0, lastAction |-> <<"-", "-">>]

\* VCP.updateStateFromMessage: the new VCP.state (stateChanged is always set,
\* so broadcastStateUpdate always follows)
updateStateFromMessage(st, action, payload, direction) ==
  LET s1 == [st EXCEPT !.lastAction = <<action, direction>>]
      s2 == IF action = "StatusNotification" /\ payload.status # ""
              THEN [s1 EXCEPT !.currentStatus = payload.status] ELSE s1
      s3 == IF action = "StopTransaction" /\ direction = "outgoing"
              THEN [s2 EXCEPT !.activeTransactionId = 0,
                              !.sessionStartTime = -1,
                              !.meterValue = 0]
              ELSE s2
      s4 == IF action = "MeterValues" /\ payload.meter >= 0
              THEN [s3 EXCEPT !.meterValue = payload.meter] ELSE s3
  IN  s4

\* VCP.updateStateFromCallResult: stateChanged
CallResultChangesState(action, payload) ==
  action = "StartTransaction" /\ payload.transactionId # 0

\* updateStateFromCallResult that records the transaction id and leaves the
\* session's start time alone
updateStateFromCallResult_IdOnly(st, action, payload) ==
  IF CallResultChangesState(action, payload)
    THEN [st EXCEPT !.activeTransactionId = payload.transactionId]
    ELSE st

\* VCP.updateStateFromCallResult: the new VCP.state
updateStateFromCallResult(st, action, payload) ==
  IF CallResultChangesState(action, payload)
    THEN [st EXCEPT !.activeTransactionId = payload.transactionId,
                    !.sessionStartTime = now]
    ELSE st

\* ------------------------------------------------------------------- send

Frame(type, id, action) == [type |-> type, id |-> id, action |-> action]

\* What a handler leaves behind: the ledger, the frames handed to the
\* transport, VCP.state, its effects in order and the exception it threw.
Outcome(ob, w, st, trace, thr) ==
  [outbox |-> ob, wire |-> w, state |-> st, trace |-> trace, threw |-> thr]

\* send with the frame handed to the transport before the call is entered
\* into the ledger
send_TransmitFirst(ob, w, st, c) ==
  IF ws = 0
    THEN Outcome(ob, w, st, <<"throw">>, NotInitialized)
  ELSE IF ~validateOcppRequest(c.action, c.payload)
    THEN Outcome(ob, w, st, <<"throw">>, RequestRejected)
  ELSE IF ~EnqueueOk(ob, c)
    THEN Outcome(ob, w \cup {Frame(2, c.messageId, c.action)}, st,
                 <<"ws.send", "throw">>, DuplicateCallId)
  ELSE Outcome(OutboxEnqueue(ob, c),
               w \cup {Frame(2, c.messageId, c.action)},
               updateStateFromMessage(st, c.action, c.payload, "outgoing"),
               <<"ws.send", "enqueue", "updateState">>
                 \o Broadcast(adminWs, clients, "state_update")
                 \o Broadcast(adminWs, clients, "ocpp_message_sent"),
               NoError)

\* send with the payload validated after the frame is handed to the transport
send_ValidateAfterTransmit(ob, w, st, c) ==
  IF ws = 0
    THEN Outcome(ob, w, st, <<"throw">>, NotInitialized)
  ELSE IF ~EnqueueOk(ob, c)
    THEN Outcome(ob, w, st, <<"throw">>, DuplicateCallId)
  ELSE IF ~validateOcppRequest(c.action, c.payload)
    THEN Outcome(OutboxEnqueue(ob, c), w \cup {Frame(2, c.messageId, c.action)},
                 st, <<"enqueue", "ws.send", "throw">>, RequestRejected)
  ELSE Outcome(OutboxEnqueue(ob, c),
               w \cup {Frame(2, c.messageId, c.action)},
               updateStateFromMessage(st, c.action, c.payload, "outgoing"),
               <<"enqueue", "ws.send", "updateState">>
                 \o Broadcast(adminWs, clients, "state_update")
                 \o Broadcast(adminWs, clients, "ocpp_message_sent"),
               NoError)

\* send that goes on when the ledger reports a duplicate id
send_IgnoresDuplicate(ob, w, st, c) ==
  IF ws = 0
    THEN Outcome(ob, w, st, <<"throw">>, NotInitialized)
  ELSE IF ~validateOcppRequest(c.action, c.payload)
    THEN Outcome(OutboxEnqueue(ob, c), w, st, <<"enqueue", "throw">>, RequestRejected)
  ELSE Outcome(OutboxEnqueue(ob, c),
               w \cup {Frame(2, c.messageId, c.action)},
               updateStateFromMessage(st, c.action, c.payload, "outgoing"),
               <<"enqueue", "ws.send", "updateState">>
                 \o Broadcast(adminWs, clients, "state_update")
                 \o Broadcast(adminWs, clients, "ocpp_message_sent"),
               NoError)

\* send that looks for the transport only when it hands the frame over
send_GuardAtTransmit(ob, w, st, c) ==
  IF ~EnqueueOk(ob, c)
    THEN Outcome(ob, w, st, <<"throw">>, DuplicateCallId)
  ELSE IF ~validateOcppRequest(c.action, c.payload)
    THEN Outcome(OutboxEnqueue(ob, c), w, st, <<"enqueue", "throw">>, RequestRejected)
  ELSE IF ws = 0
    THEN Outcome(OutboxEnqueue(ob, c), w, st, <<"enqueue", "throw">>, NotInitialized)
  ELSE Outcome(OutboxEnqueue(ob, c),
               w \cup {Frame(2, c.messageId, c.action)},
               updateStateFromMessage(st, c.action, c.payload, "outgoing"),
               <<"enqueue", "ws.send", "updateState">>
                 \o Broadcast(adminWs, clients, "state_update")
                 \o Broadcast(adminWs, clients, "ocpp_message_sent"),
               NoError)

\* VCP.send(ocppCall), begun in ledger ob, frames w, state st
send(ob, w, st, c) ==
  IF ws = 0
    THEN Outcome(ob, w, st, <<"throw">>, NotInitialized)
  ELSE IF ~EnqueueOk(ob, c)
    THEN Outcome(ob, w, st, <<"throw">>, DuplicateCallId)
  ELSE IF ~validateOcppRequest(c.action, c.payload)
    THEN Outcome(OutboxEnqueue(ob, c), w, st, <<"enqueue", "throw">>, RequestRejected)
  ELSE IF BroadcastThrows
    THEN Outcome(OutboxEnqueue(ob, c),
                 w \cup {Frame(2, c.messageId, c.action)},
                 updateStateFromMessage(st, c.action, c.payload, "outgoing"),
                 <<"enqueue", "ws.send", "updateState", "throw">>,
                 AdminSendFailed)
  ELSE Outcome(OutboxEnqueue(ob, c),
               w \cup {Frame(2, c.messageId, c.action)},
               updateStateFromMessage(st, c.action, c.payload, "outgoing"),
               <<"enqueue", "ws.send", "updateState">>
                 \o Broadcast(adminWs, clients, "state_update")
                 \o Broadcast(adminWs, clients, "ocpp_message_sent"),
               NoError)

\* VCP.respond(result)
respond(ob, w, st, id, payload) ==
  IF ws = 0
    THEN Outcome(ob, w, st, <<"throw">>, NotInitialized)
  ELSE IF ~validateOcppResponse("", payload)
    THEN Outcome(ob, w, st, <<"throw">>, ResponseRejected)
  ELSE Outcome(ob, w \cup {Frame(3, id, "")}, st, <<"ws.send">>, NoError)

\* respondError that logs the error and hands no frame to the transport
respondError_Silent(ob, w, st, id, errorCode) ==
  IF ws = 0
    THEN Outcome(ob, w, st, <<"throw">>, NotInitialized)
  ELSE Outcome(ob, w, st, <<>>, NoError)

\* VCP.respondError(error)
respondError(ob, w, st, id, errorCode) ==
  IF ws = 0
    THEN Outcome(ob, w, st, <<"throw">>, NotInitialized)
  ELSE Outcome(ob, w \cup {Frame(4, id, errorCode)}, st, <<"ws.send">>, NoError)

\* ---------------------------------------------------- transaction manager

\* getMeterValue that never sees time pass
getMeterValue_Frozen(tx) == 0

\* TransactionManager.getMeterValue(transactionId): seconds since startedAt
getMeterValue(tx) ==
  IF tx \notin DOMAIN transactions THEN 0 ELSE now - transactions[tx].startedAt

\* the energy cut off after the third decimal instead of rounded
ToFixed3_Truncated(seconds) ==
  (seconds * CHARGING_POWER_KW * 1000) \div 3600

\* (seconds * CHARGING_POWER_KW / 3600).toFixed(3), in thousandths of a kWh:
\* toFixed rounds to the nearest thousandth (no whole number of seconds
\* lands on a tie)
ToFixed3(seconds) ==
  (2 * seconds * CHARGING_POWER_KW * 1000 + 3600) \div 7200

\* whole seconds up to the clock's end at which the double
\* (seconds / 3600) * 22 * 1000 falls just short of its integer value, so
\* that Math.floor returns one less
DoubleFallsShort == {27, 54, 108}

\* TransactionManager.getMeterValueWh(transactionId)
getMeterValueWh(tx) ==
  LET seconds == getMeterValue(tx)
      exact == (seconds * CHARGING_POWER_KW * 1000) \div 3600
  IN  IF seconds \in DoubleFallsShort THEN exact - 1 ELSE exact

\* an energy query that enters a session for an id it does not find
MeterQuery_CreatesSession(tx) ==
  [seconds |-> getMeterValue(tx), wh |-> getMeterValueWh(tx),
   transactions |->
     IF tx \in DOMAIN transactions THEN transactions
     ELSE [x \in DOMAIN transactions \cup {tx} |->
             IF x = tx
               THEN [transactionId |-> tx, meterValue |-> 0, startedAt |-> now,
                     connectorId |-> 1, meterValuesTimer |-> 0]
               ELSE transactions[x]],
   timers |-> timers, threw |-> NoError]

\* what the energy query of transaction tx returns (seconds by
\* getMeterValue, Wh by getMeterValueWh) and what it leaves of the session
\* table and the armed timers
MeterQuery(tx) ==
  [seconds |-> getMeterValue(tx), wh |-> getMeterValueWh(tx),
   transactions |-> transactions, timers |-> timers, threw |-> NoError]

\* the MeterValues call the interval callback of startTransaction builds
MeterValuesCall(id, tx) ==
  Call(id, "MeterValues", Payload(TRUE, tx, "", ToFixed3(getMeterValue(tx))))

Timer(h, tx, connectorId, next) ==
  [handle |-> h, transactionId |-> tx, connectorId |-> connectorId, next |-> next]

Session(tx, connectorId, h) ==
  [transactionId |-> tx, meterValue |-> 0, startedAt |-> now,
   connectorId |-> connectorId, meterValuesTimer |-> h]

\* clearInterval(handle)
ClearInterval(ts, h) == {t \in ts : t.handle # h}

\* Map.set / Map.delete on TransactionManager.transactions
MapSet(m, k, v) == [x \in DOMAIN m \cup {k} |-> IF x = k THEN v ELSE m[x]]
MapDelete(m, k) == [x \in DOMAIN m \ {k} |-> m[x]]

\* transaction ids with an armed MeterValues timer
ArmedTx == {t.transactionId : t \in timers}

\* An exception that leaves an event callback (a timer's, a socket's message
\* listener) or a method called from the top level is uncaught: no handler
\* is installed, and the process ends.
AfterCallback(from, error) ==
  IF error = NoError THEN Running ELSE Exit("uncaught", from, error)

\* TransactionManager.startTransaction(vcp, transactionId, connectorId)
startTransaction(tx, connectorId) ==
  /\ exited = Running
  /\ nextTimer <= MaxTimers
  /\ timers' = timers \cup
       {Timer(nextTimer, tx, connectorId, now + METER_VALUES_INTERVAL_SEC)}
  /\ transactions' = MapSet(transactions, tx, Session(tx, connectorId, nextTimer))
  /\ nextTimer' = nextTimer + 1
  /\ UNCHANGED <<connVars, adminVars, exited, state, outbox, nextId, wire,
                 heartbeat, now, meterCount, handledVars, otherVars>>

\* stopTransaction with a miss in the session table treated as an error
stopTransactionOn_Strict(txs, ts, tx) ==
  IF tx \in DOMAIN txs
    THEN [transactions |-> MapDelete(txs, tx),
          timers |-> ClearInterval(ts, txs[tx].meterValuesTimer),
          threw |-> NoError]
    ELSE [transactions |-> txs, timers |-> ts, threw |-> "unknown transaction"]

\* what stopTransaction(transactionId) makes of session table txs and armed
\* timers ts
stopTransactionOn(txs, ts, tx) ==
  [transactions |-> MapDelete(txs, tx),
   timers |-> IF tx \in DOMAIN txs
                THEN ClearInterval(ts, txs[tx].meterValuesTimer)
                ELSE ts,
   threw |-> NoError]

\* TransactionManager.stopTransaction(transactionId)
stopTransaction(tx) ==
  /\ exited = Running
  /\ LET out == stopTransactionOn(transactions, timers, tx)
     IN  /\ timers' = out.timers
         /\ transactions' = out.transactions
         /\ exited' = AfterCallback("stopTransaction", out.threw)
  /\ UNCHANGED <<connVars, adminVars, state, outbox, nextId, wire,
                 nextTimer, heartbeat, now, meterCount, handledVars, otherVars>>

\* the interval callback armed by startTransaction fires
MeterValuesTimerFires(t) ==
  /\ exited = Running
  /\ t \in timers
  /\ t.next <= now
  /\ nextId <= MaxCalls
  /\ LET c == MeterValuesCall(nextId, t.transactionId)
         out == send(outbox, wire, state, c)
     IN  /\ outbox' = out.outbox
         /\ wire' = out.wire
         /\ state' = out.state
         /\ meterCount' = IF out.threw # NoError THEN meterCount
                          ELSE [meterCount EXCEPT ![t.transactionId] = @ + 1]
         /\ exited' = AfterCallback("meterValuesTimer", out.threw)
  /\ nextId' = nextId + 1
  /\ timers' = (timers \ {t}) \cup
       {[t EXCEPT !.next = @ + METER_VALUES_INTERVAL_SEC]}
  /\ UNCHANGED <<connVars, adminVars, transactions, nextTimer, heartbeat, now,
                 handledVars, otherVars>>

\* VCP.configureHeartbeat(interval)
configureHeartbeat ==
  /\ exited = Running
  /\ ~heartbeat
  /\ heartbeat' = TRUE
  /\ UNCHANGED <<connVars, adminVars, exited, state, outbox, nextId, wire,
                 txVars, now, meterCount, handledVars, otherVars>>

\* the interval callback armed by configureHeartbeat fires
HeartbeatTimerFires ==
  /\ exited = Running
  /\ heartbeat
  /\ nextId <= MaxCalls
  /\ LET c == Call(nextId, "Heartbeat", NoPayload)
         out == send(outbox, wire, state, c)
     IN  /\ outbox' = out.outbox
         /\ wire' = out.wire
         /\ state' = out.state
         /\ exited' = AfterCallback("heartbeatTimer", out.threw)
  /\ nextId' = nextId + 1
  /\ UNCHANGED <<connVars, adminVars, txVars, heartbeat, now, meterCount,
                 handledVars, otherVars>>

\* time passes, up to the next deadline of an armed interval
Advance ==
  /\ exited = Running
  /\ now < MaxTime
  /\ \A t \in timers : t.next > now
  /\ LET deadlines == {t.next : t \in timers} \cup {MaxTime, now + TimeStep}
     IN  now' = CHOOSE d \in deadlines : \A e \in deadlines : d <= e
  /\ UNCHANGED <<connVars, adminVars, exited, state, outbox, nextId, wire,
                 txVars, heartbeat, meterCount, handledVars, otherVars>>

\* -------------------------------------------------------------- connection

\* VCP.connect()
connect ==
  /\ exited = Running
  /\ nextSock <= MaxSocks
  /\ isFinishing' = FALSE
  /\ ws' = nextSock
  /\ live' = live \cup {nextSock}
  /\ nextSock' = nextSock + 1
  /\ UNCHANGED <<adminVars, exited, state, outbox, nextId, wire, txVars,
                 heartbeat, now, meterCount, handledVars, otherVars>>

\* the guard of VCP.close(): the exception it throws in the current state
closeError == IF ws = 0 THEN NotOpened ELSE NoError

\* close that tears the transports down and returns, leaving the process
\* and its armed intervals alive
close_NoExit ==
  /\ exited = Running
  /\ IF closeError # NoError
       THEN /\ exited' = Exit("uncaught", "close", closeError)
            /\ UNCHANGED <<connVars, adminVars>>
       ELSE /\ isFinishing' = TRUE
            /\ live' = live \ {ws}
            /\ ws' = 0
            /\ adminWs' = FALSE
            /\ clients' = 0
            /\ clientFails' = FALSE
            /\ exited' = Running
            /\ UNCHANGED nextSock
  /\ UNCHANGED <<state, outbox, nextId, wire, txVars, heartbeat, now,
                 meterCount, handledVars, otherVars>>

\* VCP.close()
close ==
  /\ exited = Running
  /\ IF closeError # NoError
       THEN /\ exited' = Exit("uncaught", "close", closeError)
            /\ UNCHANGED <<connVars, adminVars>>
       ELSE /\ isFinishing' = TRUE
            /\ live' = live \ {ws}
            /\ ws' = 0
            /\ adminWs' = FALSE
            /\ clients' = 0
            /\ clientFails' = FALSE
            /\ exited' = Exit("exit", "close", NoError)
            /\ UNCHANGED nextSock
  /\ UNCHANGED <<state, outbox, nextId, wire, txVars, heartbeat, now,
                 meterCount, handledVars, otherVars>>

\* _onClose that ends the process whatever isFinishing says
onCloseFatal_Always == TRUE

\* VCP._onClose: the close event ends the process (it does not return early)
onCloseFatal == ~isFinishing

\* VCP._onClose(code, reason): the close event of transport s
onClose(s) ==
  /\ exited = Running
  /\ s \in live
  /\ live' = live \ {s}
  /\ exited' = IF onCloseFatal THEN Exit("exit", "onClose", NoError) ELSE Running
  /\ UNCHANGED <<ws, nextSock, isFinishing, adminVars, state, outbox, nextId,
                 wire, txVars, heartbeat, now, meterCount, handledVars, otherVars>>

\* an admin client connects to adminWs or leaves it
MaxClients == 1

AdminClientConnects ==
  /\ exited = Running
  /\ adminWs
  /\ clients < MaxClients
  /\ clients' = clients + 1
  /\ UNCHANGED <<connVars, adminWs, clientFails, exited, state, outbox, nextId, wire,
                 txVars, heartbeat, now, meterCount, handledVars, otherVars>>

AdminClientLeaves ==
  /\ exited = Running
  /\ clients > 0
  /\ clients' = clients - 1
  /\ clientFails' = (clientFails /\ clients' > 0)
  /\ UNCHANGED <<connVars, adminWs, exited, state, outbox, nextId, wire,
                 txVars, heartbeat, now, meterCount, handledVars, otherVars>>

\* the transport of an open admin client breaks: its send throws from now on
AdminClientBreaks ==
  /\ exited = Running
  /\ adminWs
  /\ clients > 0
  /\ ~clientFails
  /\ clientFails' = TRUE
  /\ UNCHANGED <<connVars, adminWs, clients, exited, state, outbox, nextId,
                 wire, txVars, heartbeat, now, meterCount, handledVars,
                 otherVars>>

\* ids an admin client may put in a call: one of its own, or one it has seen
AdminIds == (Ids \ FreshIds) \cup {i \in FreshIds : i < nextId}

\* the admin client's message handler: this.send(JSON.parse(data))
AdminMessage(c) ==
  /\ exited = Running
  /\ adminWs
  /\ clients > 0
  /\ LET out == send(outbox, wire, state, c)
     IN  /\ outbox' = out.outbox
         /\ wire' = out.wire
         /\ state' = out.state
         /\ exited' = AfterCallback("adminMessage", out.threw)
  /\ UNCHANGED <<connVars, adminVars, nextId, txVars, heartbeat, now,
                 meterCount, handledVars, otherVars>>

\* ---------------------------------------------------------------- receive

\* frames the peer may put on a transport; type 5 stands for every leading
\* element other than 2, 3 and 4
InFrame(type, id, action, payload) ==
  [type |-> type, id |-> id, action |-> action, payload |-> payload]

InFrames ==
  {InFrame(2, i, a, Payload(v, 0, "", -1)) :
     i \in PeerIds, a \in InboundActions, v \in BOOLEAN}
  \cup {InFrame(3, i, "", p) : i \in Ids, p \in ResultPayloads}
  \cup {InFrame(4, i, "", NoPayload) : i \in Ids}
  \cup {InFrame(5, 0, "", NoPayload)}

\* messageHandler.handleCall(vcp, call): an action of the version's set is
\* answered with a CallResult, any other with a NotImplemented CallError
handleCall(ob, w, st, f) ==
  IF f.action \in ImplementedInbound
    THEN respond(ob, w, st, f.id, NoPayload)
    ELSE respondError(ob, w, st, f.id, "NotImplemented")

\* what _onMessage leaves behind: an Outcome and the handler it invoked
RxOutcome(out, pre, handler) ==
  [outbox |-> out.outbox, wire |-> out.wire, state |-> out.state,
   trace |-> pre \o out.trace, threw |-> out.threw, handler |-> handler]

\* the action the CallResult branch hands to the oracle with the payload,
\* and the call it hands to handleCallResult with the result
ResultOracleKey(f) == OutboxGet(outbox, f.id).action
HandledCall(f) == OutboxGet(outbox, f.id)

\* the CallResult branch with the handler invoked before the oracle is asked
onCallResult_HandlesUnvalidated(f) ==
  LET enqueuedCall == OutboxGet(outbox, f.id) IN
  IF enqueuedCall = NoCall
    THEN RxOutcome(Outcome(outbox, wire, state, <<"throw">>, UnknownMessageId),
                   <<>>, "none")
    ELSE LET st1 == updateStateFromCallResult(state, enqueuedCall.action, f.payload)
         IN  IF ~validateOcppResponse(ResultOracleKey(f), f.payload)
               THEN RxOutcome(Outcome(outbox, wire, st1,
                                      <<"handleCallResult", "validate", "throw">>,
                                      ResponseRejected), <<>>, "result")
               ELSE RxOutcome(Outcome(outbox, wire, st1,
                                      <<"handleCallResult", "validate">>,
                                      NoError), <<>>, "result")

\* VCP._onMessage(message), the CallResult branch (type 3)
onCallResult(f) ==
  LET enqueuedCall == OutboxGet(outbox, f.id) IN
  IF enqueuedCall = NoCall
    THEN RxOutcome(Outcome(outbox, wire, state, <<"throw">>, UnknownMessageId),
                   <<>>, "none")
    ELSE LET st1 == updateStateFromCallResult(state, enqueuedCall.action, f.payload)
             pre == (IF CallResultChangesState(enqueuedCall.action, f.payload)
                       THEN <<"updateState">>
                              \o Broadcast(adminWs, clients, "state_update")
                       ELSE <<>>)
                    \o Broadcast(adminWs, clients, "ocpp_call_result")
                    \o <<"validate">>
         IN  IF BroadcastThrows
               THEN RxOutcome(Outcome(outbox, wire, st1, <<"throw">>,
                                      AdminSendFailed),
                              IF CallResultChangesState(enqueuedCall.action, f.payload)
                                THEN <<"updateState">> ELSE <<>>,
                              "none")
             ELSE IF ~validateOcppResponse(ResultOracleKey(f), f.payload)
               THEN RxOutcome(Outcome(outbox, wire, st1, <<"throw">>,
                                      ResponseRejected), pre, "none")
               ELSE RxOutcome(Outcome(outbox, wire, st1, <<"handleCallResult">>,
                                      NoError), pre, "result")

\* the CallError branch with the ledger consulted as for a CallResult
onCallError_ConsultsLedger(f) ==
  IF OutboxGet(outbox, f.id) = NoCall
    THEN RxOutcome(Outcome(outbox, wire, state, <<"ocppOutbox.get", "throw">>,
                           UnknownMessageId), <<>>, "none")
    ELSE RxOutcome(Outcome(outbox, wire, state,
                           <<"ocppOutbox.get", "handleCallError">>, NoError),
                   <<>>, "error")

\* VCP._onMessage(message), the CallError branch (type 4)
onCallError(f) ==
  RxOutcome(Outcome(outbox, wire, state, <<"handleCallError">>, NoError),
            <<>>, "error")

\* VCP._onMessage(message)
onMessage(f) ==
  IF f.type = 2 THEN
    LET pre == Broadcast(adminWs, clients, "ocpp_message_received") IN
    IF BroadcastThrows
      THEN RxOutcome(Outcome(outbox, wire, state, <<"throw">>, AdminSendFailed),
                     <<>>, "none")
    ELSE IF ~validateOcppRequest(f.action, f.payload)
      THEN RxOutcome(Outcome(outbox, wire, state, <<"throw">>, RequestRejected),
                     pre, "none")
      ELSE LET st1 == updateStateFromMessage(state, f.action, f.payload, "incoming")
           IN  RxOutcome(handleCall(outbox, wire, st1, f),
                         pre \o <<"updateState">>
                             \o Broadcast(adminWs, clients, "state_update")
                             \o <<"handleCall">>,
                         "call")
  ELSE IF f.type = 3 THEN
    onCallResult(f)
  ELSE IF f.type = 4 THEN
    onCallError(f)
  ELSE
    RxOutcome(Outcome(outbox, wire, state, <<"throw">>, UnrecognizedType),
              <<>>, "none")

\* the message event of transport s: (message) => this._onMessage(message)
Receive(s, f) ==
  /\ exited = Running
  /\ s \in live
  /\ LET out == onMessage(f)
     IN  /\ outbox' = out.outbox
         /\ wire' = out.wire
         /\ state' = out.state
         /\ handled' = IF out.handler = "result"
                         THEN handled \cup {f.id} ELSE handled
         /\ exited' = AfterCallback("onMessage", out.threw)
  /\ UNCHANGED <<connVars, adminVars, nextId, txVars, heartbeat, now, meterCount,
                 otherVars>>

\* ------------------------------------------------------- a second VCP

\* A second VCP constructed in the same process imports the same ocppOutbox
\* and the same message factory. Of its own fields the model keeps whether it
\* has a transport; its frames go to that transport and its derived state and
\* admin clients are its own.

\* connect() of the second VCP
OtherConnects ==
  /\ exited = Running
  /\ ~otherOpen
  /\ otherOpen' = TRUE
  /\ UNCHANGED <<connVars, adminVars, exited, state, outbox, nextId, wire,
                 txVars, heartbeat, now, meterCount, handledVars, foreign>>

\* send(call(action, payload)) of the second VCP, with a payload the oracle
\* accepts: the call enters the shared ledger under a factory id
OtherSends(action) ==
  /\ exited = Running
  /\ otherOpen
  /\ nextId <= MaxCalls
  /\ LET c == Call(nextId, action, Payload(TRUE, 0, "", -1))
     IN  /\ EnqueueOk(outbox, c)
         /\ outbox' = OutboxEnqueue(outbox, c)
         /\ foreign' = foreign \cup {c.messageId}
  /\ nextId' = nextId + 1
  /\ UNCHANGED <<connVars, adminVars, exited, state, wire, txVars, heartbeat,
                 now, meterCount, handledVars, otherOpen>>

\* ------------------------------------------------------------------ codec

\* The calls as JavaScript values. Message id and action are strings; the
\* payload is an object, of which the model keeps what the program reads
\* (body) and the kind of value under meterValue[0].timestamp: the interval
\* callback of startTransaction puts a Date there (new Date()), no other
\* call has the member.
TimestampOf(c) == IF c.action = "MeterValues" THEN "Date" ELSE "absent"

JsCall(c) ==
  [messageId |-> c.messageId, action |-> c.action,
   payload |-> [body |-> c.payload, timestamp |-> TimestampOf(c)]]

\* JSON.stringify followed by JSON.parse on a member: a Date is written as
\* its ISO string (Date.prototype.toJSON) and read back as that string, an
\* undefined member is left out, anything else comes back as it was
JsonMember(kind) ==
  IF kind = "Date" THEN "string"
  ELSE IF kind = "undefined" THEN "absent"
  ELSE kind

\* JSON.stringify([2, messageId, action, payload]) as the frame it denotes
encodeCall(jc) ==
  <<2, jc.messageId, jc.action,
    [body |-> jc.payload.body, timestamp |-> JsonMember(jc.payload.timestamp)]>>

\* const [type, ...rest] = JSON.parse(message); [messageId, action, payload] = rest
decodeCall(frame) ==
  [type |-> frame[1], messageId |-> frame[2], action |-> frame[3],
   payload |-> frame[4]]

\* ---------------------------------------------------------- specification

Init ==
  /\ ws = 0
  /\ live = {}
  /\ nextSock = 1
  /\ adminWs \in BOOLEAN
  /\ clients = 0
  /\ isFinishing = FALSE
  /\ exited = Running
  /\ state = InitialState
  /\ outbox = {}
  /\ nextId = 1
  /\ wire = {}
  /\ transactions = << >>
  /\ timers = {}
  /\ nextTimer = 1
  /\ heartbeat = FALSE
  /\ now = 0
  /\ meterCount = [t \in TxIds |-> 0]
  /\ handled = {}
  /\ clientFails = FALSE
  /\ otherOpen = FALSE
  /\ foreign = {}

\* the environment's choices of the handlers' inputs
TransportCloses == \E s \in live : onClose(s)
AdminSends ==
  \E i \in AdminIds, a \in AdminActions :
    \E p \in RequestPayloads(a) : AdminMessage(Call(i, a, p))
PeerSends == \E s \in live, f \in InFrames : Receive(s, f)
SessionStarts == \E tx \in TxIds, c \in ConnectorIds : startTransaction(tx, c)
SessionStops == \E tx \in TxIds \cup {UnknownTx} : stopTransaction(tx)
MeterValuesDue == \E t \in timers : MeterValuesTimerFires(t)

\* The connection: the transport, the admin channel, the heartbeat and the
\* frames of the peer.
NextConn ==
  \/ connect
  \/ close
  \/ TransportCloses
  \/ AdminClientConnects
  \/ AdminClientLeaves
  \/ AdminSends
  \/ configureHeartbeat
  \/ HeartbeatTimerFires
  \/ PeerSends

ConnSpec == Init /\ [][NextConn]_vars

\* The transaction manager over a connection: sessions, their interval
\* timers and the clock.
NextTx ==
  \/ connect
  \/ close
  \/ SessionStarts
  \/ SessionStops
  \/ MeterValuesDue
  \/ Advance

TxSpec == Init /\ [][NextTx]_vars

\* The interval timers over a connection: the heartbeat, the sessions'
\* MeterValues intervals and the clock.
NextTimers ==
  \/ connect
  \/ close
  \/ configureHeartbeat
  \/ HeartbeatTimerFires
  \/ SessionStarts
  \/ SessionStops
  \/ MeterValuesDue
  \/ Advance

TimerSpec == Init /\ [][NextTimers]_vars

\* Two VCPs of one process and the peer of the first.
OtherCalls == \E a \in {"StartTransaction"} : OtherSends(a)

NextPair ==
  \/ connect
  \/ close
  \/ TransportCloses
  \/ configureHeartbeat
  \/ HeartbeatTimerFires
  \/ OtherConnects
  \/ OtherCalls
  \/ PeerSends

PairSpec == Init /\ [][NextPair]_vars

\* The admin channel: its clients, their calls and the heartbeat they watch.
NextAdmin ==
  \/ connect
  \/ close
  \/ AdminClientConnects
  \/ AdminClientLeaves
  \/ AdminClientBreaks
  \/ AdminSends
  \/ configureHeartbeat
  \/ HeartbeatTimerFires

AdminSpec == Init /\ [][NextAdmin]_vars

\* The whole program.
Next == NextConn \/ NextTx \/ NextPair \/ NextAdmin

Spec == Init /\ [][Next]_vars

\* =================================================================== claims

\* every call send may be given
SendCalls ==
  UNION {{Call(i, a, p) : i \in Ids, p \in RequestPayloads(a)} :
           a \in AdminActions \cup {"Heartbeat", "MeterValues"}}

\* C1: every call frame handed to the transport was entered into the ledger
\* before it was handed over: a send that transmits has enqueued first, and
\* in every state the id of every transmitted call frame is found in the
\* ledger, so that a CallResult for it finds its entry.
C1_EnqueuePrecedesTransmission ==
  /\ \A fr \in wire : fr.type = 2 => OutboxGet(outbox, fr.id) # NoCall
  /\ \A c \in SendCalls :
       LET out == send(outbox, wire, state, c)
       IN  Has(out.trace, "ws.send") =>
             /\ Has(out.trace, "enqueue")
             /\ Index(out.trace, "enqueue") < Index(out.trace, "ws.send")
             /\ c \in out.outbox

\* C1 witness: a call frame has been transmitted and the process runs on
C1_Witness ==
  /\ exited = Running
  /\ \E fr \in wire : fr.type = 2 /\ fr.id \in OutboxIds(outbox)

\* C2: a send whose payload the oracle rejects throws to its caller, hands
\* no frame to the transport, leaves VCP.state alone and broadcasts neither
\* ocpp_message_sent nor state_update; no rejected call of the ledger ever
\* has a frame on the wire.
C2_RejectedSendTransmitsNothing ==
  /\ \A c \in outbox :
       ~validateOcppRequest(c.action, c.payload) =>
         /\ \A fr \in wire : ~(fr.type = 2 /\ fr.id = c.messageId)
         /\ exited.how = "uncaught" /\ exited.error = RequestRejected
  /\ \A c \in SendCalls :
       (ws # 0 /\ EnqueueOk(outbox, c) /\ ~validateOcppRequest(c.action, c.payload)) =>
         LET out == send(outbox, wire, state, c)
         IN  /\ out.threw = RequestRejected
             /\ out.wire = wire
             /\ out.state = state
             /\ ~Has(out.trace, "ws.send")
             /\ ~Has(out.trace, "updateState")
             /\ ~Has(out.trace, "state_update")
             /\ ~Has(out.trace, "ocpp_message_sent")

\* C2 witness: a send was rejected by the oracle (its call is in the ledger
\* and the exception reached the caller)
C2_Witness ==
  /\ exited = Exit("uncaught", "adminMessage", RequestRejected)
  /\ \E c \in outbox : ~validateOcppRequest(c.action, c.payload)

\* C3: after a send that the oracle rejected the ledger is what it was before
\* the send: the ledger, empty at first, never holds a call whose payload
\* the oracle rejects.
C3_RejectedSendRestoresLedger ==
  \A c \in outbox : validateOcppRequest(c.action, c.payload)

\* C4: a CallResult whose id is not in the ledger is dropped: no exception
\* leaves _onMessage for it and the process keeps the connection.
C4_UnknownResultDropped ==
  exited # Exit("uncaught", "onMessage", UnknownMessageId)

\* C5: handleCallResult is invoked at most once per message id, whatever the
\* peer sends: once a CallResult for an id has been handled, the ledger lookup
\* of a further CallResult with that id finds nothing and no handler runs.
C5_ResultConsumedOnce ==
  \A f \in InFrames :
    (f.type = 3 /\ f.id \in handled) =>
      /\ OutboxGet(outbox, f.id) = NoCall
      /\ onMessage(f).handler # "result"

\* C6: once the CallResult of call X has been processed, X is no longer in
\* the ledger.
C6_AnsweredCallLeavesLedger ==
  \A i \in handled : i \notin OutboxIds(outbox)

\* C7: an inbound Call whose payload the oracle rejects is answered with a
\* CallError: the rejection never leaves _onMessage as an exception.
C7_RejectedCallAnswered ==
  exited # Exit("uncaught", "onMessage", RequestRejected)

\* C8: a frame whose leading element is none of 2, 3, 4 is dropped: no
\* exception leaves _onMessage for it and the connection stays up.
C8_MalformedFrameDropped ==
  exited # Exit("uncaught", "onMessage", UnrecognizedType)

\* C9: once stopTransaction(t) has returned (t is not in the session table),
\* no MeterValues call is transmitted for t.
C9_NoTelemetryAfterStop ==
  [][\A t \in TxIds :
       t \notin DOMAIN transactions => meterCount'[t] = meterCount[t]]_vars

\* C10: the transaction ids with an armed MeterValues timer are exactly the
\* ids in the session table.
C10_TimerArmedIffInTable ==
  ArmedTx = DOMAIN transactions

\* C11: stopTransaction on a transaction id that is not in the session table
\* (never started, or stopped before) throws nothing and leaves the session
\* table and every armed timer as they were; a second stop of the same id
\* changes nothing the first has not.
C11_StopIdempotent ==
  \A tx \in TxIds \cup {UnknownTx} :
    LET once == stopTransactionOn(transactions, timers, tx)
        twice == stopTransactionOn(once.transactions, once.timers, tx)
    IN  /\ once.threw = NoError
        /\ twice = once
        /\ tx \notin DOMAIN transactions =>
             /\ once.transactions = transactions
             /\ once.timers = timers
        /\ \A t \in timers :
             t.transactionId # tx => t \in once.timers

\* C11 witness: a session was started and stopped (its id is no longer in the
\* table) while a timer is still armed, and the process runs on
C11_Witness ==
  /\ exited = Running
  /\ nextTimer > 1
  /\ timers # {}
  /\ \E tx \in TxIds : tx \notin DOMAIN transactions

\* C12: once close() has been invoked on an open connection (isFinishing is
\* set) no timer callback runs any more: no call id is drawn, no frame is
\* handed to a transport, no call enters the ledger, no MeterValues call is
\* counted and no send fails on the closed transport.
C12_NoTimerAfterClose ==
  [][isFinishing =>
       /\ nextId' = nextId
       /\ wire' = wire
       /\ outbox' = outbox
       /\ meterCount' = meterCount
       /\ exited' = exited]_vars

\* C12 witness: close() was invoked while the heartbeat interval and a
\* MeterValues interval were armed
C12_Witness ==
  /\ exited = Exit("exit", "close", NoError)
  /\ isFinishing
  /\ heartbeat
  /\ timers # {}

\* C13: connect() on a connection that already has a transport is rejected:
\* it creates no new transport and leaves VCP.ws as it is.
C13_ConnectOnlyWhenIdle ==
  [][ws # 0 => (ws' = ws \/ ws' = 0)]_vars

\* C14: close() on a connection that close() has already torn down
\* (isFinishing set, VCP.ws deleted) is a no-op and throws nothing.
C14_CloseIdempotent ==
  (isFinishing /\ ws = 0) => closeError = NoError

\* C15: the close event of a transport ends the process exactly when no local
\* close was requested: with isFinishing set _onClose returns silently, with
\* isFinishing clear it is fatal, and the process never ended in _onClose
\* with isFinishing set.
C15_CloseEventFatalIffNotFinishing ==
  /\ isFinishing => ~onCloseFatal
  /\ ~isFinishing => onCloseFatal
  /\ exited.from = "onClose" => (exited.how = "exit" /\ ~isFinishing)

\* C15 witness: a transport closed with no local close requested and the
\* process ended in _onClose
C15_Witness ==
  /\ exited = Exit("exit", "onClose", NoError)
  /\ ~isFinishing

\* C16: a CallResult whose id is in the ledger is validated under the action
\* of the call that was sent with that id, and handleCallResult runs exactly
\* once for the frame, after the validation and only when it passed, with
\* the call that was sent; a rejected result reaches no handler.
C16_ResultValidatedThenHandled ==
  exited = Running =>
    \A f \in InFrames :
      (f.type = 3 /\ f.id \in OutboxIds(outbox)) =>
        LET out == onMessage(f)
            sent == {c \in outbox : c.messageId = f.id}
        IN  /\ \A c \in sent :
                 /\ ResultOracleKey(f) = c.action
                 /\ HandledCall(f) = c
                 /\ Frame(2, c.messageId, c.action) \in wire
            /\ Count(out.trace, "validate") = 1
            /\ IF validateOcppResponse(ResultOracleKey(f), f.payload)
                 THEN /\ out.handler = "result"
                      /\ out.threw = NoError
                      /\ Count(out.trace, "handleCallResult") = 1
                      /\ Index(out.trace, "validate")
                           < Index(out.trace, "handleCallResult")
                 ELSE /\ out.handler = "none"
                      /\ out.threw = ResponseRejected
                      /\ ~Has(out.trace, "handleCallResult")

\* C16 witness: handleCallResult has run for a call of the ledger whose frame
\* was sent
C16_Witness ==
  /\ exited = Running
  /\ \E c \in outbox :
       c.messageId \in handled /\ Frame(2, c.messageId, c.action) \in wire

\* C17: every CallError frame reaches handleCallError, once, whether or not
\* its id is in the ledger: the ledger is neither read nor changed, nothing
\* is thrown and nothing else happens.
C17_CallErrorBypassesLedger ==
  \A f \in InFrames :
    f.type = 4 =>
      LET out == onMessage(f)
      IN  /\ out.handler = "error"
          /\ out.trace = <<"handleCallError">>
          /\ out.threw = NoError
          /\ out.outbox = outbox
          /\ out.wire = wire
          /\ out.state = state

\* C17 witness: the connection is up, one id is in the ledger and another is
\* not, so CallError frames of both kinds can arrive
C17_Witness ==
  /\ exited = Running
  /\ live # {}
  /\ \E f, g \in InFrames :
       /\ f.type = 4 /\ f.id \in OutboxIds(outbox)
       /\ g.type = 4 /\ g.id \notin OutboxIds(outbox)
       /\ onMessage(f).handler = "error"
       /\ onMessage(g).handler = "error"

\* the MeterValues calls sent for transaction tx
TelemetryOf(tx) ==
  {c \in outbox : c.action = "MeterValues" /\ c.payload.transactionId = tx}

\* every session in the table was started once and none was stopped
StartedOnce == nextTimer - 1 = Cardinality(DOMAIN transactions)

\* C18: for a session started once and still active on a running
\* connection, the MeterValues calls sent for it are as many as the periods
\* that have elapsed since its start, and the energy they report grows
\* strictly in the order they were sent.
C18_OneCallPerPeriod ==
  (exited = Running /\ StartedOnce) =>
    \A tx \in DOMAIN transactions :
      LET t == CHOOSE t \in timers : t.handle = transactions[tx].meterValuesTimer
          startedAt == transactions[tx].startedAt
      IN  /\ meterCount[tx] =
               ((t.next - startedAt) \div METER_VALUES_INTERVAL_SEC) - 1
          /\ t.next > now =>
               meterCount[tx] = (now - startedAt) \div METER_VALUES_INTERVAL_SEC
          /\ Cardinality(TelemetryOf(tx)) = meterCount[tx]
          /\ \A c, d \in TelemetryOf(tx) :
               c.messageId < d.messageId => c.payload.meter < d.payload.meter

\* C18 witness: two periods have elapsed for a session started once and two
\* MeterValues calls were sent for it
C18_Witness ==
  /\ exited = Running
  /\ StartedOnce
  /\ \E tx \in DOMAIN transactions :
       /\ meterCount[tx] = 2
       /\ now - transactions[tx].startedAt >= 2 * METER_VALUES_INTERVAL_SEC

\* elapsed times the energy formula is evaluated at, in seconds
ElapsedSamples == {0, 1, 59, 60, 61, 120, 1799, 1800, 3599, 3600, 3601}

\* value (thousandths of a kWh) is seconds * CHARGING_POWER_KW / 3600 kWh
\* rounded to three decimals: it is off by at most half a thousandth
IsEnergyOf(value, seconds) ==
  LET d == 3600 * value - seconds * CHARGING_POWER_KW * 1000
  IN  -1800 <= d /\ d <= 1800

\* C19: the energy a MeterValues call reports is elapsed seconds times
\* CHARGING_POWER_KW / 3600 kWh to three decimals, elapsed being the time
\* since the session's start: so for the call the interval callback would
\* build now, for every call sent for a session started once (sent a whole
\* number of periods after the start), and 22.000 at 3600 seconds.
C19_EnergyFormula ==
  /\ \A tx \in DOMAIN transactions :
       IsEnergyOf(MeterValuesCall(nextId, tx).payload.meter,
                  now - transactions[tx].startedAt)
  /\ StartedOnce =>
       \A tx \in DOMAIN transactions : \A c \in TelemetryOf(tx) :
         \E k \in 1..((MaxTime \div METER_VALUES_INTERVAL_SEC) + 1) :
           /\ k <= meterCount[tx] + 1
           /\ IsEnergyOf(c.payload.meter, k * METER_VALUES_INTERVAL_SEC)
  /\ \A sec \in ElapsedSamples : IsEnergyOf(ToFixed3(sec), sec)
  /\ ToFixed3(3600) = 22000

\* C19 witness: a MeterValues call reporting a positive energy was sent for
\* a session of the table
C19_Witness ==
  /\ exited = Running
  /\ \E tx \in DOMAIN transactions : \E c \in TelemetryOf(tx) :
       c.payload.meter > 0

\* C20: the energy query returns zero (seconds and Wh) for a transaction id
\* that is not in the session table, throws for no id, and leaves the
\* session table and the armed timers as they were.
C20_MeterQueryTotalAndPure ==
  \A tx \in TxIds \cup {UnknownTx} :
    LET q == MeterQuery(tx)
    IN  /\ q.threw = NoError
        /\ q.transactions = transactions
        /\ q.timers = timers
        /\ tx \notin DOMAIN transactions => (q.seconds = 0 /\ q.wh = 0)
        /\ tx \in DOMAIN transactions =>
             q.seconds = now - transactions[tx].startedAt

\* C20 witness: time has passed for a session of the table while another id
\* is unknown to it
C20_Witness ==
  /\ exited = Running
  /\ UnknownTx \notin DOMAIN transactions
  /\ \E tx \in DOMAIN transactions : MeterQuery(tx).seconds > 0
  /\ MeterQuery(UnknownTx).wh = 0

\* C21: the frame send writes for a call is read back by _onMessage as a
\* Call (type 2) with the id, the action and the payload of the call: so for
\* every call of the ledger whose frame was handed to the transport.
C21_CallRoundTrip ==
  \A c \in outbox :
    Frame(2, c.messageId, c.action) \in wire =>
      LET back == decodeCall(encodeCall(JsCall(c)))
      IN  /\ back.type = 2
          /\ back.messageId = JsCall(c).messageId
          /\ back.action = JsCall(c).action
          /\ back.payload = JsCall(c).payload

C23_OneLiveTransport ==
  Cardinality(live) <= 1

C25_ConnectionsDoNotShareLedger ==
  /\ handled \cap foreign = {}
  /\ \A f \in InFrames :
       (f.type = 3 /\ f.id \in foreign) =>
         /\ onMessage(f).handler = "none"
         /\ onMessage(f).threw = UnknownMessageId

\* the frames whose processing is a fault of that one message: a frame of
\* no known type, a Call or a CallResult the oracle rejects, a CallResult
\* under an unknown id, a Call of an action the version does not implement
FaultyFrames ==
  {f \in InFrames :
     \/ f.type = 5
     \/ f.type = 2 /\ ~validateOcppRequest(f.action, f.payload)
     \/ f.type = 2 /\ f.action \notin ImplementedInbound
     \/ f.type = 3 /\ f.id \notin OutboxIds(outbox)
     \/ f.type = 3 /\ f.id \in OutboxIds(outbox)
          /\ ~validateOcppResponse(OutboxGet(outbox, f.id).action, f.payload)}

\* C26: while calls are pending, a faulty frame is contained: it leaves the
\* ledger and the session table as they were and the receive path in
\* service, so that a valid CallResult for a pending call that comes after
\* it is still handled.
C26_FaultsContained ==
  (exited = Running /\ ws # 0 /\ outbox # {}) =>
    \A f \in FaultyFrames :
      LET out == onMessage(f)
      IN  /\ out.outbox = outbox
          /\ AfterCallback("onMessage", out.threw) = Running

\* C27: no transaction id has more than one armed MeterValues timer.
C27_OneTimerPerTransaction ==
  \A tx \in TxIds :
    Cardinality({t \in timers : t.transactionId = tx}) <= 1

\* C28: a CallResult for a call of the ledger whose payload the oracle
\* rejects is dropped: the rejection never leaves _onMessage as an exception
\* and the process keeps the connection.
C28_RejectedResultDropped ==
  exited # Exit("uncaught", "onMessage", ResponseRejected)

\* the events the admin clients get of a protocol message
MirrorEvents ==
  {"ocpp_message_sent", "ocpp_message_received", "ocpp_call_result",
   "ocpp_call_error"}

MirrorEventsIn(trace) ==
  Cardinality({i \in 1..Len(trace) : trace[i] \in MirrorEvents})

\* C29: with admin clients listening, every protocol message the connection
\* handles gives each of them exactly one event: a call sent, an inbound
\* call, an inbound CallResult for a call of the ledger and an inbound
\* CallError alike.
C29_MirrorSeesEveryMessage ==
  (exited = Running /\ ws # 0 /\ adminWs /\ clients > 0 /\ ~clientFails) =>
    /\ \A c \in SendCalls :
         LET out == send(outbox, wire, state, c)
         IN  Has(out.trace, "ws.send") => MirrorEventsIn(out.trace) = clients
    /\ \A f \in InFrames :
         (\/ f.type = 2 /\ validateOcppRequest(f.action, f.payload)
          \/ f.type = 3 /\ f.id \in OutboxIds(outbox)
          \/ f.type = 4) =>
           MirrorEventsIn(onMessage(f).trace) = clients

\* C30: a send that got its call into the ledger and past the oracle
\* completes for its caller whatever the admin clients do: it throws
\* nothing, the frame is with the transport, the call is in the ledger, and
\* no admin client is notified before the frame was handed over.
C30_MirrorNeverFailsSend ==
  \A c \in SendCalls :
    (ws # 0 /\ EnqueueOk(outbox, c) /\ validateOcppRequest(c.action, c.payload)) =>
      LET out == send(outbox, wire, state, c)
      IN  /\ out.threw = NoError
          /\ Frame(2, c.messageId, c.action) \in out.wire
          /\ c \in out.outbox
          /\ \A i \in 1..Len(out.trace) :
               out.trace[i] \in MirrorEvents \cup {"state_update"} =>
                 Index(out.trace, "ws.send") \in 1..(i - 1)

\* the outcome of a handler that threw the not-initialized error and did
\* nothing else
RefusedWithoutTransport(out) ==
  /\ out.threw = NotInitialized
  /\ out.outbox = outbox
  /\ out.wire = wire
  /\ out.state = state
  /\ out.trace = <<"throw">>

\* C31: while the connection has no transport (before connect(), after
\* close() discarded it) send, respond and respondError throw the
\* not-initialized error and do nothing else: no ledger entry, no frame, no
\* admin event, no change of VCP.state. A callback that sent without a
\* transport has therefore left the ledger and the wire empty and VCP.state
\* as the constructor made it.
C31_NoTransportNoEffect ==
  /\ ws = 0 =>
       /\ \A c \in SendCalls :
            RefusedWithoutTransport(send(outbox, wire, state, c))
       /\ \A i \in Ids, p \in ResultPayloads :
            RefusedWithoutTransport(respond(outbox, wire, state, i, p))
       /\ \A i \in Ids, e \in {"NotImplemented", "InternalError"} :
            RefusedWithoutTransport(respondError(outbox, wire, state, i, e))
  /\ exited.error = NotInitialized =>
       /\ ws = 0
       /\ outbox = {}
       /\ wire = {}
       /\ state = InitialState

\* C31 witness: the heartbeat interval fired before connect() and its send
\* was refused
C31_Witness ==
  /\ exited = Exit("uncaught", "heartbeatTimer", NotInitialized)
  /\ heartbeat
  /\ ws = 0

\* the fields of VCP.state derived from the messages
Derived(st) ==
  <<st.currentStatus, st.activeTransactionId, st.sessionStartTime, st.meterValue>>

\* a handler left the derived state alone and told the admin clients of no
\* state update
DerivedUntouched(out) ==
  /\ Derived(out.state) = Derived(state)
  /\ ~Has(out.trace, "state_update")

\* C32: only a message that passed the schema oracle changes the derived
\* state: an outbound call, an inbound call and an inbound CallResult whose
\* payload the oracle rejects leave currentStatus, activeTransactionId,
\* sessionStartTime and meterValue as they were and cause no state_update
\* broadcast.
C32_DerivedStateOnlyFromValidated ==
  /\ \A c \in SendCalls :
       ~validateOcppRequest(c.action, c.payload) =>
         DerivedUntouched(send(outbox, wire, state, c))
  /\ \A f \in InFrames :
       /\ (f.type = 2 /\ ~validateOcppRequest(f.action, f.payload)) =>
            DerivedUntouched(onMessage(f))
       /\ (f.type = 3 /\ f.id \in OutboxIds(outbox)
              /\ ~validateOcppResponse(ResultOracleKey(f), f.payload)) =>
            DerivedUntouched(onMessage(f))

\* activeTransactionId and sessionStartTime of a VCP.state (0 and -1: null)
SessionOf(st) == <<st.activeTransactionId, st.sessionStartTime>>

\* C33: activeTransactionId is null exactly when sessionStartTime is null.
\* A CallResult for a pending StartTransaction call that carries a
\* transactionId sets both, an outgoing StopTransaction that is sent clears
\* both and resets meterValue to 0, and no other message handled by send
\* or _onMessage changes either field.
C33_SessionFieldsPaired ==
  /\ (state.activeTransactionId = 0) <=> (state.sessionStartTime = -1)
  /\ \A c \in SendCalls :
       LET out == send(outbox, wire, state, c)
       IN  IF c.action = "StopTransaction" /\ Has(out.trace, "ws.send")
             THEN /\ SessionOf(out.state) = <<0, -1>>
                  /\ out.state.meterValue = 0
             ELSE SessionOf(out.state) = SessionOf(state)
  /\ \A f \in InFrames :
       LET out == onMessage(f)
       IN  IF /\ f.type = 3
              /\ HandledCall(f).action = "StartTransaction"
              /\ f.payload.transactionId # 0
             THEN /\ out.state.activeTransactionId = f.payload.transactionId
                  /\ out.state.sessionStartTime # -1
             ELSE SessionOf(out.state) = SessionOf(state)

\* C33 witness: a StartTransaction CallResult has set both fields on an
\* open connection, and a StopTransaction call can still be sent
C33_Witness ==
  /\ exited = Running
  /\ ws # 0
  /\ state.activeTransactionId # 0
  /\ state.sessionStartTime # -1
  /\ \E c \in SendCalls :
       /\ c.action = "StopTransaction"
       /\ Has(send(outbox, wire, state, c).trace, "ws.send")

====
